---- MODULE Spec2Model ----
(***************************************************************************)
(* Model of the cart recommendation service (src/src/service/cart.rs) and *)
(* of its request handler get_suggestions (src/src/controller/cart.rs).   *)
(*                                                                         *)
(* f32 values are modelled as fixed-point numbers: the integer X stands   *)
(* for the value X / FScale.  Strings that the code inspects character by *)
(* character (province codes) are sequences of one-character strings;     *)
(* product ids are plain strings that are only compared for equality.     *)
(***************************************************************************)
EXTENDS Integers, Sequences, FiniteSets, TLC

VARIABLES
    pc,                 \* position of the request / of the function call
    province_code,      \* params.province_code, or the argument of region_to_vector
    products,           \* params.products as ProductItems (cart lines)
    catalog,            \* rows of `products WHERE is_suspension = false` (variant ids)
    store,              \* rows of orders JOIN order_products (the order store)
    product_dimensions, \* ProductDimensions { product_to_index, dimension }
    current_user,       \* UserVector of the cart
    other_users,        \* Vec<UserVector> returned by fetch_user_purchase_history
    raw_rows,           \* the raw history rows fetch_user_purchase_history aggregated
    customer_order,     \* the order in which customer_products was iterated
    user_similarities,  \* Vec<(usize, f32)>, sorted
    top_users,          \* Vec<usize>
    next_user,          \* position of the aggregation loop in top_users
    product_scores,     \* HashMap<String, f32>
    suggestions,        \* Vec<(String, f32)> returned by get_similar_products
    response,           \* the ApiResponse of get_suggestions
    ret,                \* result of a function applied on its own
    fetch_log           \* the queries awaited on the pool so far, with their outcome

vars == <<pc, province_code, products, catalog, store, product_dimensions,
          current_user, other_users, raw_rows, customer_order, user_similarities,
          top_users,
          next_user, product_scores, suggestions, response, ret, fetch_log>>

-----------------------------------------------------------------------------
(* Bounds of the model *)

\* fixed-point resolution of the modelled f32 values
FScale == 1000
\* longest catalog sequence handed to ProductDimensions::new on its own
MaxCatalogLen == 3
\* most cart lines handed to products_to_vector on its own
MaxLines == 2
\* largest quantity of a cart line or of an order row
MaxQty == 2
\* most characters after the province-code prefix
MaxSuffix == 3
\* customers of the order store are 0 .. MaxCustomerId
MaxCustomerId == 1
\* customers of the store beyond TOP_USERS
MaxExtra == 1
\* variant ids of the order store are 1 .. NumVariants
NumVariants == 7

(* Program constants *)

\* number of prefectures, the range and modulus of region_to_vector
NumRegions == 47
\* const TOP_USERS
TOP_USERS == 10
\* suggestions.truncate(5)
ResultLimit == 5
\* LIMIT 1000 of the history query
HistoryLimit == 1000

-----------------------------------------------------------------------------
(* f32 arithmetic, fixed point *)

Min(a, b) == IF a <= b THEN a ELSE b

FromInt(n) == n * FScale

FMul(a, b) == (a * b) \div FScale

FDiv(a, b) == (a * FScale) \div b

RECURSIVE ISqrtBetween(_, _, _)
\* the largest r in lo..hi with r * r <= x  (lo * lo <= x is assumed)
ISqrtBetween(x, lo, hi) ==
    IF lo >= hi THEN lo
    ELSE LET mid == (lo + hi + 1) \div 2
         IN  IF mid * mid <= x THEN ISqrtBetween(x, mid, hi)
                               ELSE ISqrtBetween(x, lo, mid - 1)

\* f32::sqrt
FSqrt(a) == ISqrtBetween(a * FScale, 0, Min(a * FScale, 46340))

RECURSIVE SumSeq(_)
\* Iterator::sum::<f32>()
SumSeq(s) == IF s = <<>> THEN 0 ELSE s[1] + SumSeq(Tail(s))

\* vector.iter().map(|&x| x * x).sum::<f32>().sqrt()
Magnitude(v) == FSqrt(SumSeq([i \in 1..Len(v) |-> FMul(v[i], v[i])]))

-----------------------------------------------------------------------------
(* ProductDimensions *)

\* ProductDimensions::new: every id is inserted with its position, a later
\* insert of the same id replaces the earlier index; dimension is the
\* number of keys of the map
NewProductDimensions(product_ids) ==
    LET keys == {product_ids[i] : i \in 1..Len(product_ids)}
        last(id) == CHOOSE i \in 1..Len(product_ids) :
                        /\ product_ids[i] = id
                        /\ \A j \in (i+1)..Len(product_ids) : product_ids[j] # id
    IN  [product_to_index |-> [id \in keys |-> last(id) - 1],
         dimension |-> Cardinality(keys)]

\* get_index(..).is_some()
HasIndex(pd, product_id) == product_id \in DOMAIN pd.product_to_index

\* get_index(..).unwrap()
GetIndex(pd, product_id) == pd.product_to_index[product_id]

GetDimension(pd) == pd.dimension

-----------------------------------------------------------------------------
(* region_to_vector *)

Digits == <<"0", "1", "2", "3", "4", "5", "6", "7", "8", "9">>

IsDigit(c) == \E d \in 1..10 : Digits[d] = c

DigitValue(c) == (CHOOSE d \in 1..10 : Digits[d] = c) - 1

RECURSIVE DigitsValue(_)
DigitsValue(s) ==
    IF s = <<>> THEN 0
    ELSE DigitsValue(SubSeq(s, 1, Len(s) - 1)) * 10 + DigitValue(s[Len(s)])

\* str::parse::<u32>().unwrap_or(0): an optional "+", then one or more
\* decimal digits; anything else is an error (a value above u32::MAX is an
\* error too: no province code of the model is that long)
ParseU32OrZero(s) ==
    LET body == IF s # <<>> /\ s[1] = "+" THEN Tail(s) ELSE s
    IN  IF body # <<>> /\ \A i \in 1..Len(body) : IsDigit(body[i])
        THEN DigitsValue(body)
        ELSE 0

StartsWithJP(code) == Len(code) >= 3 /\ SubSeq(code, 1, 3) = <<"J", "P", "-">>

RegionValue(code) ==
    IF StartsWithJP(code) /\ Len(code) >= 5
    THEN ParseU32OrZero(SubSeq(code, 4, Len(code)))
    ELSE 0

InRegionRange(region_value) == region_value >= 1 /\ region_value <= NumRegions

region_to_vector(code) ==
    LET region_value == RegionValue(code)
        normalized_value == IF InRegionRange(region_value)
                            THEN FromInt(region_value % NumRegions)
                            ELSE 0
    IN  <<normalized_value>>

-----------------------------------------------------------------------------
(* Vectors *)

ProductItem(id, q) == [product_variant_id |-> id, quantity |-> q]

\* vec![0.0; dimension]
ZeroVector(dimension) == [i \in 1..dimension |-> 0]

RECURSIVE FoldProductsSummed(_, _, _)
\* the loop of products_to_vector, had it added a line's quantity to the
\* dimension instead of storing it
FoldProductsSummed(items, pd, acc) ==
    IF items = <<>> \/ acc.panicked THEN acc
    ELSE LET product == Head(items)
         IN  IF HasIndex(pd, product.product_variant_id)
             THEN LET index == GetIndex(pd, product.product_variant_id)
                  IN  IF index >= Len(acc.vector)
                      THEN [panicked |-> TRUE, vector |-> acc.vector]
                      ELSE FoldProductsSummed(Tail(items), pd,
                               [acc EXCEPT !.vector[index + 1] =
                                               @ + FromInt(product.quantity)])
             ELSE FoldProductsSummed(Tail(items), pd, acc)

RECURSIVE FoldProducts(_, _, _)
\* the loop of products_to_vector over the lines `items`, acc being the
\* vector so far.  The vector's element of index i is vector[i + 1]; an
\* index that is not below the vector's length makes `vector[index] = ..`
\* panic.
FoldProducts(items, pd, acc) ==
    IF items = <<>> \/ acc.panicked THEN acc
    ELSE LET product == Head(items)
         IN  IF HasIndex(pd, product.product_variant_id)
             THEN LET index == GetIndex(pd, product.product_variant_id)
                  IN  IF index >= Len(acc.vector)
                      THEN [panicked |-> TRUE, vector |-> acc.vector]
                      ELSE FoldProducts(Tail(items), pd,
                               [acc EXCEPT !.vector[index + 1] =
                                               FromInt(product.quantity)])
             ELSE FoldProducts(Tail(items), pd, acc)

\* the normalisation at the end of products_to_vector
Normalize(vector) ==
    LET magnitude == Magnitude(vector)
    IN  IF magnitude > 0
        THEN [i \in 1..Len(vector) |-> FDiv(vector[i], magnitude)]
        ELSE vector

\* products_to_vector: [panicked |-> TRUE, ..] when the call panics,
\* otherwise the returned vector
products_to_vector(items, pd) ==
    LET filled == FoldProducts(items, pd,
                      [panicked |-> FALSE, vector |-> ZeroVector(GetDimension(pd))])
    IN  IF filled.panicked THEN filled
        ELSE [panicked |-> FALSE, vector |-> Normalize(filled.vector)]

\* create_user_vector (the controller names it create_order_vector)
create_user_vector(region_code, items, pd) ==
    LET pv == products_to_vector(items, pd)
    IN  [panicked |-> pv.panicked,
         region_vector |-> region_to_vector(region_code),
         product_vector |-> pv.vector]

-----------------------------------------------------------------------------
(* Similarity *)

cosine_similarity(vec1, vec2) ==
    IF Len(vec1) # Len(vec2) THEN 0
    ELSE LET dot_product == SumSeq([i \in 1..Len(vec1) |-> FMul(vec1[i], vec2[i])])
             magnitude1 == Magnitude(vec1)
             magnitude2 == Magnitude(vec2)
         IN  IF magnitude1 > 0 /\ magnitude2 > 0
             THEN FDiv(dot_product, FMul(magnitude1, magnitude2))
             ELSE 0

\* the region_weight 0.2 passed by get_similar_products
RegionWeight == (2 * FScale) \div 10

combined_similarity(user1, user2, region_weight) ==
    LET product_similarity == cosine_similarity(user1.product_vector, user2.product_vector)
        region_similarity == cosine_similarity(user1.region_vector, user2.region_vector)
    IN  FMul(FromInt(1) - region_weight, product_similarity)
        + FMul(region_weight, region_similarity)

-----------------------------------------------------------------------------
(* Sorting and collecting *)

\* the comparator, had it compared a with b: ascending scores
ScoreBeforeAscending(a, b) == a[2] < b[2]

\* the comparator |a, b| b.1.partial_cmp(&a.1): a goes before b when its
\* score is greater
ScoreBefore(a, b) == a[2] > b[2]

RECURSIVE InsertSorted(_, _)
\* x put behind every element that does not have to come after it
InsertSorted(sorted, x) ==
    IF sorted = <<>> THEN <<x>>
    ELSE IF ScoreBefore(x, Head(sorted))
         THEN <<x>> \o sorted
         ELSE <<Head(sorted)>> \o InsertSorted(Tail(sorted), x)

\* the similarities left in the order of other_users
SortSkipped(s) == s

RECURSIVE SortByScoreDesc(_)
\* slice::sort_by with that comparator: a stable sort, equal scores keep
\* the order they had
SortByScoreDesc(s) ==
    IF s = <<>> THEN <<>>
    ELSE InsertSorted(SortByScoreDesc(SubSeq(s, 1, Len(s) - 1)), s[Len(s)])

\* a truncation that keeps one element too many
TakeOneMore(s, n) == SubSeq(s, 1, Min(Len(s), n + 1))

\* Iterator::take(n) / Vec::truncate(n)
Take(s, n) == SubSeq(s, 1, Min(Len(s), n))

RECURSIVE Orderings(_)
\* the orders in which a HashMap with the keys S can be iterated
Orderings(S) ==
    IF S = {} THEN {<<>>}
    ELSE UNION {{<<x>> \o rest : rest \in Orderings(S \ {x})} : x \in S}

SeqToSet(s) == {s[i] : i \in 1..Len(s)}

-----------------------------------------------------------------------------
(* The order store and its two queries *)

\* A row of orders JOIN order_products JOIN customers.  Every order of the
\* store holds one order_products row and has its own processed_at, so the
\* history query's GROUP BY o.processed_at returns each row with its own
\* quantity.  A customer id is the number MySQL compares with the u64
\* parameter of fetch_user_products.
OrderRow(c, code, v, q) ==
    [customer_id |-> c, province_code |-> code, variant_id |-> v, quantity |-> q]

\* the rows of fetch_user_purchase_history's query, LIMIT 1000, each mapped
\* to (customer_id, province_code, variant_id.to_string(), quantity)
HistoryRows(rows) ==
    LET limited == Take(rows, HistoryLimit)
    IN  [i \in 1..Len(limited) |->
            [customer_id |-> limited[i].customer_id,
             province_code |-> limited[i].province_code,
             product_variant_id |-> ToString(limited[i].variant_id),
             quantity |-> limited[i].quantity]]

RowCustomers(rows) == {rows[i].customer_id : i \in 1..Len(rows)}

\* customer_products[customer].0: the province code of the customer's
\* first row (or_insert_with)
CustomerProvince(rows, customer) ==
    rows[CHOOSE i \in 1..Len(rows) :
            /\ rows[i].customer_id = customer
            /\ \A j \in 1..(i - 1) : rows[j].customer_id # customer].province_code

RECURSIVE CustomerItems(_, _)
\* customer_products[customer].1: one ProductItem pushed per row, in row order
CustomerItems(rows, customer) ==
    IF rows = <<>> THEN <<>>
    ELSE IF Head(rows).customer_id = customer
         THEN <<ProductItem(Head(rows).product_variant_id, Head(rows).quantity)>>
              \o CustomerItems(Tail(rows), customer)
         ELSE CustomerItems(Tail(rows), customer)

\* the user vectors built from the grouped rows, in the iteration order
\* `order` of the customer_products map
UserVectors(rows, order, pd) ==
    [k \in 1..Len(order) |->
        create_user_vector(CustomerProvince(rows, order[k]),
                           CustomerItems(rows, order[k]), pd)]

RECURSIVE SumQuantity(_, _, _)
\* SUM(oi.quantity) of the rows of one customer and one variant
SumQuantity(rows, user_id, v) ==
    IF rows = <<>> THEN 0
    ELSE (IF Head(rows).customer_id = user_id /\ Head(rows).variant_id = v
          THEN Head(rows).quantity ELSE 0)
         + SumQuantity(Tail(rows), user_id, v)

\* fetch_user_products: the rows WHERE o.customer_id = user_id, GROUP BY
\* oi.variant_id.  The loop over the result only updates a map per product,
\* so the result is kept as a set.
fetch_user_products(rows, user_id) ==
    {ProductItem(ToString(v), SumQuantity(rows, user_id, v)) :
        v \in {rows[i].variant_id :
                  i \in {j \in 1..Len(rows) : rows[j].customer_id = user_id}}}

-----------------------------------------------------------------------------
(* get_similar_products, step by step *)

\* current_products.iter().map(|p| p.product_variant_id.clone()).collect()
CurrentProductIds(items) == {items[i].product_variant_id : i \in 1..Len(items)}

\* user_similarities before the sort: (idx, combined_similarity(..)) with
\* idx counted from 0
Similarities(current, others) ==
    [k \in 1..Len(others) |->
        <<k - 1, combined_similarity(current, others[k], RegionWeight)>>]

\* user_similarities.iter().find(|(idx, _)| *idx == user_idx)
\*     .map(|(_, score)| *score).unwrap_or(0.0)
ScoreOf(similarities, user_idx) ==
    IF \E k \in 1..Len(similarities) : similarities[k][1] = user_idx
    THEN similarities[CHOOSE k \in 1..Len(similarities) :
                          /\ similarities[k][1] = user_idx
                          /\ \A j \in 1..(k - 1) : similarities[j][1] # user_idx][2]
    ELSE 0

\* the body of `for product in user_products`, had it not skipped the
\* products of the cart
AddScoresOfEveryProduct(scores, user_products, cart_ids, score) ==
    LET added == {p.product_variant_id : p \in user_products}
    IN  [id \in (DOMAIN scores) \cup added |->
            (IF id \in DOMAIN scores THEN scores[id] ELSE 0)
            + (IF id \in added THEN score ELSE 0)]

\* the body of `for product in user_products`: products of the cart are
\* skipped, every other product's entry grows by the user's score
AddScores(scores, user_products, cart_ids, score) ==
    LET added == {p.product_variant_id : p \in user_products} \ cart_ids
    IN  [id \in (DOMAIN scores) \cup added |->
            (IF id \in DOMAIN scores THEN scores[id] ELSE 0)
            + (IF id \in added THEN score ELSE 0)]

\* product_scores.into_iter().collect() in the iteration order `order`,
\* sort_by, truncate(5)
RankSuggestions(scores, order) ==
    Take(SortByScoreDesc([k \in 1..Len(order) |-> <<order[k], scores[order[k]]>>]),
         ResultLimit)

-----------------------------------------------------------------------------
(* Inputs *)

\* the sequences over S of length at most n
SeqsUpTo(S, n) == UNION {[1..k -> S] : k \in 0..n}

JP13 == <<"J", "P", "-", "1", "3">>
JP47 == <<"J", "P", "-", "4", "7">>
Tokyo == <<"t", "o", "k", "y", "o">>

\* province codes of the requests
RequestCodes == {JP13, Tokyo}

\* shipping_province_code of a customer of the store
ProvinceOf(c) == IF c % 2 = 0 THEN JP13 ELSE JP47

\* carts of the requests; "9" is no variant of the catalog
Carts ==
    { <<>>,
      <<ProductItem("1", 1)>>,
      <<ProductItem("2", MaxQty), ProductItem("3", 1)>>,
      <<ProductItem("9", 1), ProductItem("1", 1)>> }

\* catalogs: every variant active, variant 3 suspended, a variant id on two rows
Catalogs == { <<"1", "2", "3">>, <<"1", "2">>, <<"2", "1", "1">> }

\* what one customer has ordered: (variant, quantity) per order, oldest first
Profiles ==
    { <<>>,
      <<<<1, MaxQty>>>>,
      <<<<2, 1>>, <<3, MaxQty>>>>,
      <<<<1, 1>>, <<2, 1>>, <<1, MaxQty>>>> }

CustomerRows(c, profile) ==
    [i \in 1..Len(profile) |-> OrderRow(c, ProvinceOf(c), profile[i][1], profile[i][2])]

RECURSIVE StoreOf(_, _)
\* the rows of customers c .. MaxCustomerId, customer after customer
StoreOf(assignment, c) ==
    IF c > MaxCustomerId THEN <<>>
    ELSE CustomerRows(c, assignment[c]) \o StoreOf(assignment, c + 1)

Stores == {StoreOf(a, 0) : a \in [0..MaxCustomerId -> Profiles]}

\* a store whose customer 0 has ordered every variant 1 .. NumVariants and
\* whose customer 1 has ordered the variants from `from` on
WideStore(from) ==
    [v \in 1..NumVariants |-> OrderRow(0, ProvinceOf(0), v, 1)]
    \o [k \in 1..(NumVariants - from + 1) |->
           OrderRow(1, ProvinceOf(1), from + k - 1, MaxQty)]

WideStores == {WideStore(from) : from \in {4, NumVariants + 1}}

WideCatalog == [v \in 1..NumVariants |-> ToString(v)]

NoVector == [panicked |-> FALSE, region_vector |-> <<>>, product_vector |-> <<>>]

NoDimensions == [product_to_index |-> <<>>, dimension |-> 0]

NoResponse == [message |-> "", suggestions |-> <<>>]

\* one awaited query: which fetch function ran it, and whether it returned Ok
Fetched(fetch, ok) == [fetch |-> fetch, ok |-> ok]

\* everything a request computes, before it has computed it
Idle ==
    /\ product_dimensions = NoDimensions
    /\ current_user = NoVector
    /\ other_users = <<>>
    /\ raw_rows = <<>>
    /\ customer_order = <<>>
    /\ user_similarities = <<>>
    /\ top_users = <<>>
    /\ next_user = 0
    /\ product_scores = <<>>
    /\ suggestions = <<>>
    /\ response = NoResponse
    /\ ret = <<>>
    /\ fetch_log = <<>>

\* a request arrives: narrow stores with every cart and catalog, or a wide
\* store that offers more candidates than the result holds
Init ==
    /\ pc = "start"
    /\ \/ /\ province_code \in RequestCodes
          /\ products \in Carts
          /\ catalog \in Catalogs
          /\ store \in Stores
       \/ /\ province_code = JP13
          /\ products \in {<<>>, <<ProductItem("1", 1)>>}
          /\ catalog = WideCatalog
          /\ store \in WideStores
    /\ Idle

-----------------------------------------------------------------------------
(* get_suggestions *)

ErrorMessage == "Error fetching product dimensions"
SuccessMessage == "Successfully generated suggestions"

\* lines 85-98 of the controller: the scores become the response
Respond(scores) ==
    /\ response' = [message |-> SuccessMessage,
                    suggestions |-> [k \in 1..Len(scores) |->
                        [product_variant_id |-> scores[k][1], score |-> scores[k][2]]]]
    /\ pc' = "done"

\* the catalog error, had the handler unwrapped the result
PanicOnCatalogError ==
    /\ pc' = "panicked"
    /\ UNCHANGED response

\* the Err arm of the match on fetch_product_dimensions: the handler
\* returns the error response
RespondCatalogError ==
    /\ response' = [message |-> ErrorMessage, suggestions |-> <<>>]
    /\ pc' = "done"

\* the history error, had get_similar_products unwrapped the result
PanicOnHistoryError ==
    /\ pc' = "panicked"
    /\ UNCHANGED <<suggestions, response>>

\* the Err arm of the match on fetch_user_purchase_history: return vec![],
\* which the controller turns into its response
ReturnOnHistoryError ==
    /\ suggestions' = <<>>
    /\ Respond(<<>>)

\* fetch_product_dimensions(&pool).await and the match on its result
FetchProductDimensions ==
    /\ pc = "start"
    /\ \/ /\ RespondCatalogError
          /\ fetch_log' = Append(fetch_log, Fetched("catalog", FALSE))
          /\ UNCHANGED product_dimensions
       \/ /\ product_dimensions' = NewProductDimensions(catalog)
          /\ fetch_log' = Append(fetch_log, Fetched("catalog", TRUE))
          /\ pc' = "create_vector"
          /\ UNCHANGED response
    /\ UNCHANGED <<province_code, products, catalog, store, current_user, other_users,
                   raw_rows, customer_order, user_similarities, top_users, next_user,
                   product_scores, suggestions, ret>>

\* the cart becomes the current user's vector
CreateUserVector ==
    /\ pc = "create_vector"
    /\ LET cu == create_user_vector(province_code, products, product_dimensions)
       IN  IF cu.panicked
           THEN pc' = "panicked" /\ UNCHANGED current_user
           ELSE pc' = "fetch_history" /\ current_user' = cu
    /\ UNCHANGED <<province_code, products, catalog, store, product_dimensions,
                   other_users, raw_rows, customer_order, user_similarities, top_users,
                   next_user, product_scores, suggestions, response, ret, fetch_log>>

\* fetch_user_purchase_history(..).await and the match on its result
FetchUserPurchaseHistory ==
    /\ pc = "fetch_history"
    /\ \/ /\ ReturnOnHistoryError
          /\ fetch_log' = Append(fetch_log, Fetched("history", FALSE))
          /\ UNCHANGED <<other_users, raw_rows, customer_order>>
       \/ LET rows == HistoryRows(store)
          IN  \E order \in Orderings(RowCustomers(rows)) :
                LET users == UserVectors(rows, order, product_dimensions)
                IN  /\ IF \E k \in 1..Len(users) : users[k].panicked
                       THEN pc' = "panicked" /\ UNCHANGED other_users
                       ELSE pc' = "similarity" /\ other_users' = users
                    /\ raw_rows' = rows
                    /\ customer_order' = order
                    /\ fetch_log' = Append(fetch_log, Fetched("history", TRUE))
                    /\ UNCHANGED <<suggestions, response>>
    /\ UNCHANGED <<province_code, products, catalog, store, product_dimensions,
                   current_user, user_similarities, top_users, next_user,
                   product_scores, ret>>

\* lines 155-174: similarities, sort, the top users, an empty score map
ComputeSimilarities ==
    /\ pc = "similarity"
    /\ LET sorted == SortByScoreDesc(Similarities(current_user, other_users))
       IN  /\ user_similarities' = sorted
           /\ top_users' = [k \in 1..Len(Take(sorted, TOP_USERS)) |-> sorted[k][1]]
    /\ next_user' = 1
    /\ product_scores' = <<>>
    /\ pc' = "aggregate"
    /\ UNCHANGED <<province_code, products, catalog, store, product_dimensions,
                   current_user, other_users, raw_rows, customer_order, suggestions,
                   response, ret, fetch_log>>

\* one turn of `for &user_idx in &top_users`: fetch_user_products(..).await
\* .unwrap_or_default() and the scores of its products
AggregateUserProducts ==
    /\ pc = "aggregate"
    /\ next_user <= Len(top_users)
    /\ LET user_idx == top_users[next_user]
       IN  IF user_idx < Len(other_users)
           THEN \E ok \in BOOLEAN :
                  LET user_products == IF ok THEN fetch_user_products(store, user_idx)
                                            ELSE {}
                  IN  /\ product_scores' =
                             AddScores(product_scores, user_products,
                                       CurrentProductIds(products),
                                       ScoreOf(user_similarities, user_idx))
                      /\ fetch_log' = Append(fetch_log, Fetched("user_products", ok))
           ELSE UNCHANGED <<product_scores, fetch_log>>
    /\ next_user' = next_user + 1
    /\ UNCHANGED <<pc, province_code, products, catalog, store, product_dimensions,
                   current_user, other_users, raw_rows, customer_order,
                   user_similarities, top_users, suggestions, response, ret>>

\* lines 198-206 and the controller's response
SortSuggestions ==
    /\ pc = "aggregate"
    /\ next_user > Len(top_users)
    /\ \E ranked \in {RankSuggestions(product_scores, order) :
                         order \in Orderings(DOMAIN product_scores)} :
          /\ suggestions' = ranked
          /\ Respond(ranked)
    /\ UNCHANGED <<province_code, products, catalog, store, product_dimensions,
                   current_user, other_users, raw_rows, customer_order,
                   user_similarities, top_users, next_user, product_scores, ret,
                   fetch_log>>

Next ==
    \/ FetchProductDimensions
    \/ CreateUserVector
    \/ FetchUserPurchaseHistory
    \/ ComputeSimilarities
    \/ AggregateUserProducts
    \/ SortSuggestions

Spec == Init /\ [][Next]_vars

-----------------------------------------------------------------------------
(* region_to_vector applied on its own *)

CodePrefixes == { <<>>, <<"J", "P", "-">>, <<"j", "p", "-">>, <<"J", "P">> }

SuffixChars == {"0", "1", "3", "4", "7", "8", "9", "+", "a"}

RegionCodes ==
    {prefix \o suffix : prefix \in CodePrefixes, suffix \in SeqsUpTo(SuffixChars, MaxSuffix)}
    \cup {Tokyo}

InitRegion ==
    /\ pc = "region_arg"
    /\ province_code \in RegionCodes
    /\ products = <<>>
    /\ catalog = <<>>
    /\ store = <<>>
    /\ Idle

CallRegionToVector ==
    /\ pc = "region_arg"
    /\ ret' = region_to_vector(province_code)
    /\ pc' = "region_ret"
    /\ UNCHANGED <<province_code, products, catalog, store, product_dimensions,
                   current_user, other_users, raw_rows, customer_order,
                   user_similarities, top_users, next_user, product_scores,
                   suggestions, response, fetch_log>>

NextRegion == CallRegionToVector

SpecRegion == InitRegion /\ [][NextRegion]_vars

-----------------------------------------------------------------------------
(* ProductDimensions::new and products_to_vector applied on their own *)

\* the product ids of the catalogs; "9" is in no catalog
CatalogIds == {"1", "2"}

LineChoices == {ProductItem(id, q) : id \in CatalogIds \cup {"9"}, q \in 0..MaxQty}

InitVector ==
    /\ pc = "dims_arg"
    /\ catalog \in SeqsUpTo(CatalogIds, MaxCatalogLen)
    /\ province_code = <<>>
    /\ products = <<>>
    /\ store = <<>>
    /\ Idle

CallNewProductDimensions ==
    /\ pc = "dims_arg"
    /\ product_dimensions' = NewProductDimensions(catalog)
    /\ pc' = "vector_arg"
    /\ UNCHANGED <<province_code, products, catalog, store, current_user, other_users,
                   raw_rows, customer_order, user_similarities, top_users, next_user,
                   product_scores, suggestions, response, ret, fetch_log>>

CallProductsToVector ==
    /\ pc = "vector_arg"
    /\ \E items \in SeqsUpTo(LineChoices, MaxLines) :
          /\ products' = items
          /\ ret' = products_to_vector(items, product_dimensions)
    /\ pc' = "vector_ret"
    /\ UNCHANGED <<province_code, catalog, store, product_dimensions, current_user,
                   other_users, raw_rows, customer_order, user_similarities, top_users,
                   next_user, product_scores, suggestions, response, fetch_log>>

NextVector == CallNewProductDimensions \/ CallProductsToVector

SpecVector == InitVector /\ [][NextVector]_vars

-----------------------------------------------------------------------------
(* The neighbour selection over a store of about TOP_USERS customers *)

\* what a customer of such a store has ordered once, and from where
SameProduct == [code |-> JP13, variant_id |-> 1]
OtherProduct == [code |-> JP13, variant_id |-> 2]
OtherRegion == [code |-> JP47, variant_id |-> 2]

\* n customers that all ordered product 1, or all product 2, or product 1
\* and product 2 in turn
BaseProfiles(n) ==
    { [k \in 1..n |-> SameProduct],
      [k \in 1..n |-> OtherProduct],
      [k \in 1..n |-> IF k % 2 = 0 THEN SameProduct ELSE OtherProduct] }

\* such customers, at most one of them with an order of its own kind
CustomerProfiles(n) ==
    BaseProfiles(n)
    \cup {[f EXCEPT ![k] = p] : f \in BaseProfiles(n), k \in 1..n,
                                p \in {SameProduct, OtherProduct, OtherRegion}}

\* customer k - 1 has one order, of one unit
ManyCustomerStore(profiles) ==
    [k \in 1..Len(profiles) |->
        OrderRow(k - 1, profiles[k].code, profiles[k].variant_id, 1)]

ManyCustomerStores ==
    UNION {{ManyCustomerStore(f) : f \in CustomerProfiles(n)} :
              n \in (TOP_USERS - 1)..(TOP_USERS + MaxExtra)}

\* a request for the cart (1, 1) from JP-13 whose two fetches have returned,
\* the customers iterated in the order of their ids
InitNeighbours ==
    /\ pc = "similarity"
    /\ province_code = JP13
    /\ products = <<ProductItem("1", 1)>>
    /\ catalog = <<"1", "2">>
    /\ store \in ManyCustomerStores
    /\ product_dimensions = NewProductDimensions(catalog)
    /\ current_user = create_user_vector(province_code, products, product_dimensions)
    /\ raw_rows = HistoryRows(store)
    /\ customer_order = [k \in 1..Len(store) |-> k - 1]
    /\ other_users = UserVectors(raw_rows, customer_order, product_dimensions)
    /\ user_similarities = <<>>
    /\ top_users = <<>>
    /\ next_user = 0
    /\ product_scores = <<>>
    /\ suggestions = <<>>
    /\ response = NoResponse
    /\ ret = <<>>
    /\ fetch_log = <<Fetched("catalog", TRUE), Fetched("history", TRUE)>>

NextNeighbours == ComputeSimilarities

SpecNeighbours == InitNeighbours /\ [][NextNeighbours]_vars

-----------------------------------------------------------------------------
(* Properties of region_to_vector (SpecRegion) *)

\* "JP-" followed by exactly two digits
MatchesRegionPattern(code) ==
    /\ Len(code) = 5
    /\ StartsWithJP(code)
    /\ IsDigit(code[4])
    /\ IsDigit(code[5])

TwoDigitNumber(code) == DigitValue(code[4]) * 10 + DigitValue(code[5])

\* C6: region_to_vector returns a vector of length 1 whose value is n mod 47
\* when the code is "JP-" followed by a two-digit number n in 1..47, and 0.0
\* for every other code.
C6_RegionVector ==
    pc = "region_ret" =>
        /\ Len(ret) = 1
        /\ ret[1] = IF /\ MatchesRegionPattern(province_code)
                       /\ TwoDigitNumber(province_code) \in 1..NumRegions
                    THEN FromInt(TwoDigitNumber(province_code) % NumRegions)
                    ELSE 0

-----------------------------------------------------------------------------
(* Properties of ProductDimensions and products_to_vector (SpecVector) *)

\* C9: the mapping built by ProductDimensions::new is a bijection onto a
\* dense index range: distinct ids have distinct indices, every index lies
\* in [0, dimension), and the dimension is the number of active products.
C9_DenseBijection ==
    pc \in {"vector_arg", "vector_ret"} =>
        LET ids == SeqToSet(catalog)
        IN  /\ \A a, b \in ids :
                  a # b => GetIndex(product_dimensions, a) # GetIndex(product_dimensions, b)
            /\ \A a \in ids :
                  /\ HasIndex(product_dimensions, a)
                  /\ GetIndex(product_dimensions, a) \in 0..(GetDimension(product_dimensions) - 1)
            /\ GetDimension(product_dimensions) = Cardinality(ids)

\* the lines whose product id has an index
KnownLines(items, pd) ==
    SelectSeq(items, LAMBDA line : HasIndex(pd, line.product_variant_id))

\* C8: lines whose product id is absent from the vector space contribute
\* nothing: products_to_vector raises no error and returns a vector of the
\* dimension's length, equal at every index to the vector built from the
\* same lines without the unknown-product lines.
C8_UnknownLinesIgnored ==
    pc = "vector_ret" =>
        /\ ~ret.panicked
        /\ Len(ret.vector) = GetDimension(product_dimensions)
        /\ ret.vector =
               products_to_vector(KnownLines(products, product_dimensions),
                                  product_dimensions).vector

\* the quantity of the last line whose product has the index i, 0 without one
LastQuantity(items, pd, i) ==
    LET hits == {k \in 1..Len(items) :
                    /\ HasIndex(pd, items[k].product_variant_id)
                    /\ GetIndex(pd, items[k].product_variant_id) = i}
    IN  IF hits = {} THEN 0
        ELSE FromInt(items[CHOOSE k \in hits : \A j \in hits : j <= k].quantity)

\* C7 as stated: the returned vector holds, at the index of every resolved
\* line, that line's quantity (the last line of a product wins), 0 at every
\* other index, and is not normalised.
C7_QuantitiesUnnormalised ==
    (pc = "vector_ret" /\ ~ret.panicked) =>
        \A i \in 0..(Len(ret.vector) - 1) :
            ret.vector[i + 1] = LastQuantity(products, product_dimensions, i)

\* C7, amended: the returned vector holds, at the index of every resolved
\* line, the last such line's quantity divided by the L2 norm of those
\* quantities, and 0 at every other index; it is the zero vector when the
\* norm is 0.
C7_QuantitiesNormalised ==
    (pc = "vector_ret" /\ ~ret.panicked) =>
        LET d == GetDimension(product_dimensions)
            raw == [i \in 1..d |-> LastQuantity(products, product_dimensions, i - 1)]
            norm == FSqrt(SumSeq([i \in 1..d |-> FMul(raw[i], raw[i])]))
        IN  /\ Len(ret.vector) = d
            /\ \A i \in 1..d :
                  ret.vector[i] = IF norm > 0 THEN FDiv(raw[i], norm) ELSE 0

\* two lines name one resolved product with different quantities, another
\* resolved product is absent, and a vector was returned
C7_Witness ==
    /\ pc = "vector_ret"
    /\ ~ret.panicked
    /\ Len(products) = 2
    /\ products[1].product_variant_id = products[2].product_variant_id
    /\ products[1].quantity > products[2].quantity
    /\ products[2].quantity > 0
    /\ HasIndex(product_dimensions, products[1].product_variant_id)
    /\ GetDimension(product_dimensions) = 2

-----------------------------------------------------------------------------
(* Properties of a request (Spec) *)

SuggestionIds(sugs) == {sugs[k][1] : k \in 1..Len(sugs)}

ItemIds(items) == {p.product_variant_id : p \in items}

\* C1: no suggestion returned by get_similar_products, and none of the
\* response, has the product id of a line of the cart.
C1_NoCartProductSuggested ==
    /\ \A k \in 1..Len(suggestions) :
          suggestions[k][1] \notin CurrentProductIds(products)
    /\ \A k \in 1..Len(response.suggestions) :
          response.suggestions[k].product_variant_id \notin CurrentProductIds(products)

\* a top user of the store has ordered a product of the cart and another
\* product, and that other product is suggested
C1_Witness ==
    /\ pc = "done"
    /\ \E k \in 1..Len(top_users) :
          LET bought == ItemIds(fetch_user_products(store, top_users[k]))
          IN  /\ bought \cap CurrentProductIds(products) # {}
              /\ (bought \ CurrentProductIds(products)) \cap SuggestionIds(suggestions) # {}

\* the products the store holds for the selected users, the cart's excluded
Candidates ==
    UNION {ItemIds(fetch_user_products(store, top_users[k])) : k \in 1..Len(top_users)}
    \ CurrentProductIds(products)

C3_BestFirst ==
    (pc = "done" /\ response.message = SuccessMessage) =>
        /\ \A k \in 1..Len(suggestions) :
              /\ suggestions[k][1] \in DOMAIN product_scores
              /\ suggestions[k][2] = product_scores[suggestions[k][1]]
              /\ response.suggestions[k].score = suggestions[k][2]
              /\ response.suggestions[k].product_variant_id = suggestions[k][1]
        /\ \A k \in 1..(Len(suggestions) - 1) :
              suggestions[k][2] >= suggestions[k + 1][2]
        /\ \A id \in (DOMAIN product_scores) \ SuggestionIds(suggestions) :
              /\ Len(suggestions) = ResultLimit
              /\ \A k \in 1..Len(suggestions) : product_scores[id] <= suggestions[k][2]

\* candidates were dropped, and the scores returned are not all equal
C3_Witness ==
    /\ pc = "done"
    /\ Cardinality(DOMAIN product_scores) > ResultLimit
    /\ Len(suggestions) = ResultLimit
    /\ suggestions[1][2] > suggestions[ResultLimit][2]
    /\ \E id \in (DOMAIN product_scores) \ SuggestionIds(suggestions) :
          product_scores[id] < suggestions[1][2]

\* the step in which the history fetch fails: the request leaves the fetch
\* without any row read
HistoryFails ==
    /\ pc = "fetch_history"
    /\ pc' \notin {"fetch_history", "similarity"}
    /\ raw_rows' = <<>>

\* the history was fetched and holds no customer
NoCustomers == pc \in {"similarity", "aggregate"} /\ other_users = <<>>

\* C4: when the history fetch fails or returns no customers the request is
\* not aborted: get_similar_products returns an empty list and
\* get_suggestions answers with an empty suggestion list.
C4_HistoryUnavailable ==
    /\ [][HistoryFails =>
             /\ pc' = "done"
             /\ suggestions' = <<>>
             /\ response' = [message |-> SuccessMessage, suggestions |-> <<>>]]_vars
    /\ [](NoCustomers => product_scores = <<>> /\ ENABLED Next)
    /\ [][(NoCustomers /\ pc' = "done") =>
             /\ suggestions' = <<>>
             /\ response' = [message |-> SuccessMessage, suggestions |-> <<>>]]_vars

\* the history fetch of a store with orders failed, and the request was
\* answered
C4_Witness ==
    /\ pc = "done"
    /\ response.message = SuccessMessage
    /\ store # <<>>
    /\ raw_rows = <<>>
    /\ other_users = <<>>

\* the step in which the catalog fetch fails
CatalogFails == pc = "start" /\ pc' \notin {"start", "create_vector"}

\* C5: when the catalog fetch fails get_suggestions answers with an error
\* message and an empty suggestion list; the process goes on and the scoring
\* path is not run.
C5_CatalogUnavailable ==
    /\ [][CatalogFails =>
             /\ pc' = "done"
             /\ response' = [message |-> ErrorMessage, suggestions |-> <<>>]]_vars
    /\ [](response.message = ErrorMessage =>
             /\ pc = "done"
             /\ product_dimensions = NoDimensions
             /\ current_user = NoVector
             /\ other_users = <<>>
             /\ user_similarities = <<>>
             /\ product_scores = <<>>
             /\ suggestions = <<>>
             /\ response.suggestions = <<>>)

\* the catalog fetch of a request with a cart failed
C5_Witness ==
    /\ pc = "done"
    /\ response.message = ErrorMessage
    /\ products # <<>>
    /\ store # <<>>

RECURSIVE RowQuantitySum(_, _, _)
\* the sum of the quantities of the raw rows of one customer and one product
RowQuantitySum(rows, customer, id) ==
    IF rows = <<>> THEN 0
    ELSE (IF Head(rows).customer_id = customer /\ Head(rows).product_variant_id = id
          THEN Head(rows).quantity ELSE 0)
         + RowQuantitySum(Tail(rows), customer, id)

\* the summed quantities of one customer, laid out by the product dimensions
SummedVector(rows, customer, pd) ==
    [i \in 1..GetDimension(pd) |->
        IF \E id \in DOMAIN pd.product_to_index : GetIndex(pd, id) = i - 1
        THEN FromInt(RowQuantitySum(rows, customer,
                 CHOOSE id \in DOMAIN pd.product_to_index : GetIndex(pd, id) = i - 1))
        ELSE 0]

\* C10: the history aggregator produces exactly one vector per distinct
\* customer id of the raw rows, and a customer's vector holds, for a product
\* of several raw rows, the sum of those rows' quantities (compared after
\* the normalisation that products_to_vector applies to every vector).
C10_HistorySummed ==
    pc = "similarity" =>
        /\ Len(other_users) = Cardinality(RowCustomers(raw_rows))
        /\ SeqToSet(customer_order) = RowCustomers(raw_rows)
        /\ \A k \in 1..Len(other_users) :
              other_users[k].product_vector =
                  Normalize(SummedVector(raw_rows, customer_order[k], product_dimensions))

-----------------------------------------------------------------------------
(* The aggregation loop (Spec) *)

\* the loop over top_users has run to its end
AggregationEnded == pc = "aggregate" /\ next_user > Len(top_users)

\* no awaited query returned Err
EveryFetchOk == \A k \in 1..Len(fetch_log) : fetch_log[k].ok

\* the value a neighbour's own product vector holds at the index of a
\* product, 0 where the product has no index in the vector
NeighbourValue(user_idx, product_id) ==
    LET vector == other_users[user_idx + 1].product_vector
    IN  IF /\ HasIndex(product_dimensions, product_id)
           /\ GetIndex(product_dimensions, product_id) < Len(vector)
        THEN vector[GetIndex(product_dimensions, product_id) + 1]
        ELSE 0

\* sum over the selected neighbours of score * value at the product's index
WeightedScore(product_id) ==
    SumSeq([k \in 1..Len(top_users) |->
               FMul(ScoreOf(user_similarities, top_users[k]),
                    NeighbourValue(top_users[k], product_id))])

\* the products outside the cart with a positive value in the vector of a
\* selected neighbour
ScoredByNeighbours ==
    {id \in (DOMAIN product_dimensions.product_to_index) \cup (DOMAIN product_scores) :
        /\ id \notin CurrentProductIds(products)
        /\ \E k \in 1..Len(top_users) : NeighbourValue(top_users[k], id) > 0}

\* C11: when the aggregation ends and every query succeeded, the products
\* holding a score are exactly those outside the cart with a positive value
\* in a selected neighbour's product vector, and the score of each is the
\* sum over the selected neighbours of the neighbour's score times that
\* neighbour's vector value at the product's index
C11_ScoreIsWeightedSum ==
    (AggregationEnded /\ EveryFetchOk) =>
        /\ DOMAIN product_scores = ScoredByNeighbours
        /\ \A id \in DOMAIN product_scores : product_scores[id] = WeightedScore(id)

-----------------------------------------------------------------------------
(* The neighbour selection (SpecNeighbours) *)

\* the combined similarity of the historical vector at position user_idx
NeighbourScore(user_idx) ==
    combined_similarity(current_user, other_users[user_idx + 1], RegionWeight)

\* the positions of the historical vectors that were not selected
LeftOut == (0..(Len(other_users) - 1)) \ SeqToSet(top_users)

\* C12: once the neighbours are selected, they are at most TOP_USERS distinct
\* historical vectors, and no historical vector left out has a combined
\* similarity strictly greater than that of a selected one
C12_TopNeighboursSelected ==
    pc = "aggregate" =>
        /\ Len(top_users) <= TOP_USERS
        /\ \A k \in 1..Len(top_users) :
              /\ top_users[k] \in 0..(Len(other_users) - 1)
              /\ \A j \in 1..(k - 1) : top_users[j] # top_users[k]
        /\ \A out \in LeftOut : \A k \in 1..Len(top_users) :
              ~(NeighbourScore(out) > NeighbourScore(top_users[k]))

\* more than TOP_USERS historical vectors, TOP_USERS of them selected, and a
\* vector left out that stood before a selected one of greater score
C12_Witness ==
    /\ pc = "aggregate"
    /\ Len(other_users) > TOP_USERS
    /\ Len(top_users) = TOP_USERS
    /\ \E out \in LeftOut : \E k \in 1..Len(top_users) :
          /\ out < top_users[k]
          /\ NeighbourScore(out) < NeighbourScore(top_users[k])

-----------------------------------------------------------------------------
(* The queries of a request (Spec) *)

\* the fetch functions whose query has been awaited so far
FetchesDone == {fetch_log[k].fetch : k \in 1..Len(fetch_log)}

\* similarity, neighbour selection or score aggregation is about to run or
\* has run
ScoringStarted ==
    \/ pc \in {"similarity", "aggregate"}
    \/ pc = "done" /\ response.message = SuccessMessage /\ user_similarities # <<>>

\* C13: the only queries of a request are the catalog query and the history
\* query, each awaited at most once; scoring starts only when both have
\* returned, and no query is awaited from then on
C13_FetchesBeforeScoring ==
    /\ FetchesDone \subseteq {"catalog", "history"}
    /\ Len(fetch_log) <= Cardinality({"catalog", "history"})
    /\ ScoringStarted => fetch_log = <<Fetched("catalog", TRUE), Fetched("history", TRUE)>>

-----------------------------------------------------------------------------
(* Panics (Spec) *)

\* C14: no step of a request panics, whatever the catalog ids, the region
\* code, the cart lines and the history rows are: building the vectors,
\* the similarities, the ranking and the aggregation always return
C14_NoPanicInScoring == pc # "panicked"

-----------------------------------------------------------------------------
(* Reproducibility (Spec) *)

\* one iteration order of a HashMap with the keys S, the same for the same S
FixedOrder(S) == CHOOSE order \in Orderings(S) : TRUE

\* the historical vectors and the sorted similarities of a run on the
\* request and the store of this state that iterates customer_products in
\* the fixed order
ReferenceUsers ==
    UserVectors(HistoryRows(store), FixedOrder(RowCustomers(HistoryRows(store))),
                NewProductDimensions(catalog))

ReferenceSimilarities ==
    SortByScoreDesc(
        Similarities(create_user_vector(province_code, products,
                                        NewProductDimensions(catalog)),
                     ReferenceUsers))

ReferenceTopUsers ==
    [k \in 1..Len(Take(ReferenceSimilarities, TOP_USERS)) |->
        ReferenceSimilarities[k][1]]

RECURSIVE ReferenceScoresFrom(_, _)
\* the score map of that run after the neighbours k, k + 1, ..
ReferenceScoresFrom(k, scores) ==
    IF k > Len(ReferenceTopUsers) THEN scores
    ELSE ReferenceScoresFrom(k + 1,
             AddScores(scores, fetch_user_products(store, ReferenceTopUsers[k]),
                       CurrentProductIds(products),
                       ScoreOf(ReferenceSimilarities, ReferenceTopUsers[k])))

\* the list that run returns when it iterates product_scores in the fixed
\* order too
ReferenceSuggestions ==
    LET scores == ReferenceScoresFrom(1, <<>>)
    IN  RankSuggestions(scores, FixedOrder(DOMAIN scores))

\* C15: a request whose queries all succeeded returns the list that the
\* reference run returns on the same cart, province code, catalog and store:
\* any two runs on the same inputs return the same ordered suggestions
C15_SameInputsSameSuggestions ==
    (pc = "done" /\ response.message = SuccessMessage /\ EveryFetchOk) =>
        suggestions = ReferenceSuggestions

====
